---- MODULE Spec2Model ----
(***************************************************************************)
(* State-machine model of ABTestAnalyzer (ab_test_statistical_analysis.py). *)
(*                                                                         *)
(* Numbers.  alpha, mde and power are held in thousandths (0.05 is 50).    *)
(* A rate or a mean is the exact fraction [num, den]; den = 0 is a float   *)
(* NaN.  A p-value is kept symbolically (the statistic it is the tail of), *)
(* and compared with alpha through the normal quantile of alpha.           *)
(*                                                                         *)
(* Library calls (scipy, statsmodels, pandas) are modelled by what the     *)
(* library does on the arguments the code passes: which inputs it rejects  *)
(* with an exception, and the decision p < alpha.  Where the outcome       *)
(* depends on the installed library version the model keeps every outcome. *)
(* The wall-clock 'timestamp' of a stored result, the medians, standard    *)
(* deviations, the chi-square statistic and the interval bounds are        *)
(* reported values no decision of the code reads; they are not modelled.   *)
(*                                                                         *)
(* 'threads' holds analyze calls made by concurrent callers on the one     *)
(* analyzer, each between its computation and its store.  'fetch' is the   *)
(* paging loop of get_visits_with_ab_test_data (matomo_ab_test_extract.py).*)
(***************************************************************************)
EXTENDS Integers, Sequences, FiniteSets, TLC

VARIABLES alpha, data, experiment_results, ret, threads, fetch

vars == <<alpha, data, experiment_results, ret, threads, fetch>>

(***************************************************************************)
(* Bounds and input domains                                                *)
(***************************************************************************)
\* largest number of visitors per arm in the enumerated datasets
MaxVisitors == 2

\* Python's None (experiment_name or treatment omitted, nothing returned)
None == "None"

\* self.data: None until a DataFrame is loaded
NoData == [loaded |-> FALSE, df |-> <<>>]

Loaded(df) == [loaded |-> TRUE, df |-> df]

Experiments == {"exp1", "exp2"}

\* variation names, in Python's string order
\* ("A" < "B" < "Inconclusive" < "Original")
VariationOrder == <<"A", "B", "Inconclusive", "Original">>

Variations == {VariationOrder[i] : i \in 1..Len(VariationOrder)}

\* alpha values given to the constructor: 0.05, 0.5, and 1.5 (outside (0,1))
Alphas == {50, 500, 1500}

(***************************************************************************)
(* Generic helpers                                                         *)
(***************************************************************************)
RECURSIVE SumSeq(_)
SumSeq(s) ==
    IF Len(s) = 0 THEN 0
    ELSE IF Len(s) = 1 THEN s[1]
    ELSE LET half == Len(s) \div 2
         IN  SumSeq(SubSeq(s, 1, half)) + SumSeq(SubSeq(s, half + 1, Len(s)))

\* p/q > r/s for p, r >= 0 and q, s > 0, without forming the cross products
RECURSIVE RatGT(_, _, _, _)
RatGT(p, q, r, s) ==
    IF (p \div q) # (r \div s) THEN (p \div q) > (r \div s)
    ELSE IF p % q = 0 THEN FALSE
    ELSE IF r % s = 0 THEN TRUE
    ELSE RatGT(s, r % s, q, p % q)

NaN == [num |-> 0, den |-> 0]

IsNaN(x) == x.den = 0

Frac(a, b) == [num |-> a, den |-> b]

\* x > y on floats: false whenever either side is NaN
FracGT(x, y) == ~IsNaN(x) /\ ~IsNaN(y) /\ x.num * y.den > y.num * x.den

FracEQ(x, y) == ~IsNaN(x) /\ ~IsNaN(y) /\ x.num * y.den = y.num * x.den

(***************************************************************************)
(* The record store: a DataFrame is a sequence of rows                     *)
(***************************************************************************)
Row(e, v, id, c, rev) ==
    [experiment_name |-> e, variation_name |-> v, visitor_id |-> id,
     converted |-> c, order_revenue |-> rev]

\* n visitors base+1 .. base+n of variation v, one row each; the first c buy for rev
MkArm(e, v, base, n, c, rev) ==
    [i \in 1..n |-> Row(e, v, base + i, IF i <= c THEN 1 ELSE 0,
                        IF i <= c THEN rev ELSE 0)]

\* "repeat": one more converted row of the control's first visitor;
\* "third": a third variation, whose rows come after those of "B"
ExtraRows(extra) ==
    CASE extra = "repeat" -> <<Row("exp1", "Original", 1, 1, 50)>>
      [] extra = "third"  -> <<Row("exp1", "A", 21, 1, 50)>>
      [] OTHER            -> <<>>

\* a second experiment that has the control only
OtherExperiment == <<Row("exp2", "Original", 31, 0, 0)>>

\* every dataset with 1..MaxVisitors visitors in each of "Original" and "B" of
\* "exp1", any number of them buying for 50
Family ==
    { MkArm("exp1", "Original", 0, n1, c1, 50) \o MkArm("exp1", "B", 10, n2, c2, 50)
        \o ExtraRows(extra) \o OtherExperiment :
        n1 \in 1..MaxVisitors, c1 \in 0..MaxVisitors,
        n2 \in 1..MaxVisitors, c2 \in 0..MaxVisitors,
        extra \in {"none", "repeat", "third"} }

\* 10 visitors per arm, 2 of them buy for 50 each
TenVisitorsTwoBuyers ==
    MkArm("exp1", "Original", 0, 10, 2, 50) \o MkArm("exp1", "B", 10, 10, 2, 50)

\* equal revenue per visitor (50), one large order against six small ones
SkewedRevenue ==
    MkArm("exp1", "Original", 0, 6, 1, 300) \o MkArm("exp1", "B", 10, 6, 6, 50)

\* a control that is itself named "Inconclusive": both of its visitors buy,
\* neither visitor of "B" does
NamedInconclusive ==
    MkArm("exp1", "Inconclusive", 0, 2, 2, 50) \o MkArm("exp1", "B", 10, 2, 0, 50)

\* two experiments that both have the two arms
TwoExperiments ==
    MkArm("exp1", "Original", 0, 2, 1, 50) \o MkArm("exp1", "B", 10, 2, 1, 50)
        \o MkArm("exp2", "Original", 30, 2, 1, 50) \o MkArm("exp2", "B", 40, 2, 2, 50)

\* 50 visitors, 9 in 10 of each arm buying for 50: nothing to tell the arms apart
HighRate ==
    MkArm("exp1", "Original", 0, 20, 18, 50) \o MkArm("exp1", "B", 20, 30, 27, 50)

DataFrames ==
    Family \cup {TenVisitorsTwoBuyers, SkewedRevenue, NamedInconclusive,
                 TwoExperiments, HighRate}

(***************************************************************************)
(* pandas: boolean-mask filtering, nunique, unique, sum, groupby, reindex  *)
(***************************************************************************)
\* df[df['experiment_name'] == experiment_name], applied only to a truthy name
FilterExperiment(df, experiment_name) ==
    IF experiment_name # None
    THEN SelectSeq(df, LAMBDA r : r.experiment_name = experiment_name)
    ELSE df

\* df[df['variation_name'] == v]
FilterVariation(df, v) == SelectSeq(df, LAMBDA r : r.variation_name = v)

VisitorIds(rows) == {rows[i].visitor_id : i \in 1..Len(rows)}

\* rows['visitor_id'].nunique()
NUnique(rows) == Cardinality(VisitorIds(rows))

\* rows['converted'].sum()
SumConverted(rows) == SumSeq([i \in 1..Len(rows) |-> rows[i].converted])

\* rows['order_revenue'].sum()
SumRevenue(rows) == SumSeq([i \in 1..Len(rows) |-> rows[i].order_revenue])

\* rows['visitor_id'].unique(): the distinct ids in order of first appearance
RECURSIVE Unique(_)
Unique(rows) ==
    IF rows = <<>> THEN <<>>
    ELSE LET init == SubSeq(rows, 1, Len(rows) - 1)
             last == rows[Len(rows)].visitor_id
         IN  IF last \in VisitorIds(init) THEN Unique(init)
             ELSE Append(Unique(init), last)

\* rows.groupby('visitor_id')['order_revenue'].sum(): one entry per id that has rows
GroupRevenue(rows) ==
    [id \in VisitorIds(rows) |->
        SumRevenue(SelectSeq(rows, LAMBDA r : r.visitor_id = id))]

\* series.reindex(index, fill_value=0)
Reindex(series, index) ==
    [i \in 1..Len(index) |->
        IF index[i] \in DOMAIN series THEN series[index[i]] ELSE 0]

\* a plausible slip: revenue grouped over the purchasing rows only, no zero filling
PerVisitorRevenueBuyersOnly(rows) ==
    LET buying == SelectSeq(rows, LAMBDA r : r.order_revenue > 0)
        series == GroupRevenue(buying)
    IN  Reindex(series, Unique(buying))

\* the per-visitor revenue sample of one arm (zeros for visitors who never buy)
PerVisitorRevenue(rows) == Reindex(GroupRevenue(rows), Unique(rows))

\* series.mean(): NaN for an empty series
Mean(sample) == IF Len(sample) = 0 THEN NaN ELSE Frac(SumSeq(sample), Len(sample))

(***************************************************************************)
(* p-values                                                                *)
(***************************************************************************)
\* float NaN
PNaN == [kind |-> "nan", num |-> 0, den |-> 0]

\* the two-sided normal tail 2*sf(sqrt(num/den))
PNormal(num, den) == [kind |-> "normal", num |-> num, den |-> den]

\* the exact probability num/den
PExact(num, den) == [kind |-> "exact", num |-> num, den |-> den]

\* scipy.stats.norm.isf(a/2)^2 in millionths, a in thousandths
NormIsfSquared(a) ==
    CASE a = 10  -> 6634897
      [] a = 50  -> 3841459
      [] a = 100 -> 2705543
      [] a = 500 -> 454936

\* p < a/1000 on floats
PLess(p, a) ==
    CASE p.kind = "nan" -> FALSE
      [] p.kind = "exact" -> p.num * 1000 < a * p.den
      [] p.kind = "normal" /\ a <= 0 -> FALSE
      [] p.kind = "normal" /\ a > 1000 -> TRUE
      [] p.kind = "normal" /\ a = 1000 -> p.num > 0
      [] OTHER -> RatGT(p.num, p.den, NormIsfSquared(a), 1000000)

\* p >= a/1000 on floats
PGeq(p, a) ==
    CASE p.kind = "nan" -> FALSE
      [] p.kind = "exact" -> p.num * 1000 >= a * p.den
      [] p.kind = "normal" /\ a <= 0 -> TRUE
      [] p.kind = "normal" /\ a > 1000 -> FALSE
      [] p.kind = "normal" /\ a = 1000 -> p.num = 0
      [] OTHER -> ~RatGT(p.num, p.den, NormIsfSquared(a), 1000000)

(***************************************************************************)
(* Outcome of a call: a returned value or a raised exception               *)
(***************************************************************************)
Return(v) == [status |-> "return", exc |-> None, value |-> v]

Raise(e) == [status |-> "raise", exc |-> e, value |-> None]

(***************************************************************************)
(* test_conversion_rate                                                    *)
(***************************************************************************)
\* a plausible slip: the non-converting cell counted over rows, not visitors
ContingencyTableByRows(ctrl, treat) ==
    <<<<SumConverted(ctrl), Len(ctrl) - SumConverted(ctrl)>>,
      <<SumConverted(treat), Len(treat) - SumConverted(treat)>>>>

\* table = [[conv1, n1 - conv1], [conv2, n2 - conv2]]
ContingencyTable(ctrl, treat) ==
    <<<<SumConverted(ctrl), NUnique(ctrl) - SumConverted(ctrl)>>,
      <<SumConverted(treat), NUnique(treat) - SumConverted(treat)>>>>

\* scipy.stats.chi2_contingency(table): rejects a negative cell and a zero
\* expected frequency (an empty row or column); on the all-zero table every
\* expected frequency is 0/0 = NaN, no check fires and the statistic is NaN
Chi2Contingency(table) ==
    LET row1 == table[1][1] + table[1][2]
        row2 == table[2][1] + table[2][2]
        col1 == table[1][1] + table[2][1]
        col2 == table[1][2] + table[2][2]
    IN  IF \E i \in 1..2, j \in 1..2 : table[i][j] < 0 THEN "ValueError"
        ELSE IF row1 + row2 = 0 THEN "nan"
        ELSE IF row1 = 0 \/ row2 = 0 \/ col1 = 0 \/ col2 = 0 THEN "ValueError"
        ELSE "ok"

\* statsmodels proportions_ztest([conv1, conv2], [n1, n2]): the two-sided p-value
\* of z = (conv1/n1 - conv2/n2) / sqrt(p(1-p)(1/n1 + 1/n2)), p the pooled rate
ProportionsZTest(conv1, n1, conv2, n2) ==
    LET C == conv1 + conv2
        N == n1 + n2
        D == conv1 * n2 - conv2 * n1
    IN  IF n1 = 0 \/ n2 = 0 \/ C <= 0 \/ C >= N THEN PNaN
        ELSE PNormal(D * D * N, n1 * n2 * C * (N - C))

\* conv / n if n > 0 else 0
Rate(conv, n) == IF n > 0 THEN Frac(conv, n) ELSE Frac(0, 1)

\* (x2 - x1) / x1 if x1 > 0 else 0
Lift(x1, x2) ==
    IF FracGT(x1, Frac(0, 1))
    THEN IF IsNaN(x2) THEN NaN
         ELSE Frac(x2.num * x1.den - x1.num * x2.den, x1.num * x2.den)
    ELSE Frac(0, 1)

\* a plausible slip: the winner decided by the rates alone, without the p-value gate
ConversionWinnerUngated(p, a, rate1, rate2, control, treatment) ==
    IF FracGT(rate2, rate1) THEN treatment ELSE control

\* if p_z < self.alpha: winner = treatment if rate2 > rate1 else control
ConversionWinner(p, a, rate1, rate2, control, treatment) ==
    IF PLess(p, a)
    THEN IF FracGT(rate2, rate1) THEN treatment ELSE control
    ELSE "Inconclusive"

\* the set of outcomes of test_conversion_rate(control, treatment, experiment_name)
TestConversionRate(store, a, control, treatment, experiment_name) ==
    \* self.data is None: None[...] raises TypeError
    IF ~store.loaded THEN {Raise("TypeError")}
    ELSE
    LET df    == FilterExperiment(store.df, experiment_name)
        ctrl  == FilterVariation(df, control)
        treat == FilterVariation(df, treatment)
        n1    == NUnique(ctrl)
        n2    == NUnique(treat)
        conv1 == SumConverted(ctrl)
        conv2 == SumConverted(treat)
        rate1 == Rate(conv1, n1)
        rate2 == Rate(conv2, n2)
        chi   == Chi2Contingency(ContingencyTable(ctrl, treat))
        p_z   == ProportionsZTest(conv1, n1, conv2, n2)
        result ==
            [metric |-> "conversion_rate",
             control |-> [name |-> control, n |-> n1, conversions |-> conv1,
                          rate |-> rate1],
             treatment |-> [name |-> treatment, n |-> n2, conversions |-> conv2,
                            rate |-> rate2],
             p_value |-> p_z,
             lift |-> Lift(rate1, rate2),
             significant |-> PLess(p_z, a),
             winner |-> ConversionWinner(p_z, a, rate1, rate2, control, treatment)]
    IN  IF chi = "ValueError" THEN {Raise("ValueError")}
        \* both arms empty: proportion_confint(0, 0) divides by zero, an
        \* exception on plain Python numbers and a NaN on numpy arrays
        ELSE IF chi = "nan" THEN {Return(result), Raise("ZeroDivisionError")}
        ELSE {Return(result)}

(***************************************************************************)
(* test_revenue                                                            *)
(***************************************************************************)
RECURSIVE SumSet(_)
SumSet(S) == IF S = {} THEN 0 ELSE LET x == CHOOSE y \in S : TRUE
                                   IN  x + SumSet(S \ {x})

\* twice the U statistic of sample x against sample y: 2 per pair x[i] > y[j],
\* 1 per tied pair (average ranks)
TwiceU(x, y) ==
    SumSeq([k \in 1..(Len(x) * Len(y)) |->
        LET xi == x[((k - 1) \div Len(y)) + 1]
            yj == y[((k - 1) % Len(y)) + 1]
        IN  IF xi > yj THEN 2 ELSE IF xi = yj THEN 1 ELSE 0])

\* sum of t^3 - t over the groups of tied values of the pooled sample
TieTerm(pooled) ==
    LET count(v) == Cardinality({i \in 1..Len(pooled) : pooled[i] = v})
    IN  SumSeq([i \in 1..Len(pooled) |->
            \* each value counted once, at its first position
            IF \E j \in 1..(i - 1) : pooled[j] = pooled[i] THEN 0
            ELSE count(pooled[i]) * count(pooled[i]) * count(pooled[i])
                 - count(pooled[i])])

\* number of ways to give sample x (size n1) ranks out of 1..n with U >= u
ExactTailCount(n1, n, u) ==
    Cardinality({S \in SUBSET (1..n) :
        Cardinality(S) = n1 /\ SumSet(S) - (n1 * (n1 + 1)) \div 2 >= u})

RECURSIVE Binomial(_, _)
Binomial(n, k) == IF k = 0 THEN 1 ELSE (Binomial(n - 1, k - 1) * n) \div k

\* scipy.stats.mannwhitneyu(x, y, alternative='two-sided'), method='auto':
\* exact when there are no ties and a sample has at most 8 values, otherwise
\* the normal approximation with tie and continuity correction; the p-value
\* is 2 * sf(max(U1, U2)) clipped to 1.  x and y are non-empty.
MannWhitneyU(x, y) ==
    LET n1 == Len(x)
        n2 == Len(y)
        n  == n1 + n2
        u2x == TwiceU(x, y)
        twiceU == IF u2x >= 2 * n1 * n2 - u2x THEN u2x ELSE 2 * n1 * n2 - u2x
        T  == TieTerm(x \o y)
        \* twice (U - n1*n2/2 - 0.5)
        A  == twiceU - n1 * n2 - 1
        tail == ExactTailCount(n1, n, twiceU \div 2)
        total == Binomial(n, n1)
    IN  IF T = 0 /\ (n1 <= 8 \/ n2 <= 8)
        THEN PExact(IF 2 * tail > total THEN total ELSE 2 * tail, total)
        ELSE IF A <= 0 \/ n * (n * n - 1) - T = 0 THEN PExact(1, 1)
        ELSE PNormal(3 * A * A * n * (n - 1), n1 * n2 * (n * (n * n - 1) - T))

\* a plausible slip: a tie in the means goes to the treatment
RevenueWinnerTieToTreatment(p, a, mean1, mean2, control, treatment) ==
    IF PLess(p, a)
    THEN IF FracGT(mean1, mean2) THEN control ELSE treatment
    ELSE "Inconclusive"

\* if p_value < self.alpha: winner = treatment if mean2 > mean1 else control
RevenueWinner(p, a, mean1, mean2, control, treatment) ==
    IF PLess(p, a)
    THEN IF FracGT(mean2, mean1) THEN treatment ELSE control
    ELSE "Inconclusive"

\* the set of outcomes of test_revenue(control, treatment, experiment_name)
TestRevenue(store, a, control, treatment, experiment_name) ==
    IF ~store.loaded THEN {Raise("TypeError")}
    ELSE
    LET df        == FilterExperiment(store.df, experiment_name)
        ctrl_rev  == PerVisitorRevenue(FilterVariation(df, control))
        treat_rev == PerVisitorRevenue(FilterVariation(df, treatment))
        mean1     == Mean(ctrl_rev)
        mean2     == Mean(treat_rev)
        result(p_value) ==
            [metric |-> "revenue_per_visitor",
             control |-> [name |-> control, n |-> Len(ctrl_rev),
                          mean_rpv |-> mean1, total_revenue |-> SumSeq(ctrl_rev)],
             treatment |-> [name |-> treatment, n |-> Len(treat_rev),
                            mean_rpv |-> mean2, total_revenue |-> SumSeq(treat_rev)],
             p_value |-> p_value,
             lift |-> Lift(mean1, mean2),
             significant |-> PLess(p_value, a),
             winner |-> RevenueWinner(p_value, a, mean1, mean2, control, treatment)]
    IN  \* an empty sample: mannwhitneyu raises ValueError, or (later scipy)
        \* warns and returns NaN
        IF Len(ctrl_rev) = 0 \/ Len(treat_rev) = 0
        THEN {Raise("ValueError"), Return(result(PNaN))}
        ELSE {Return(result(MannWhitneyU(treat_rev, ctrl_rev)))}

(***************************************************************************)
(* sample_size_needed                                                      *)
(***************************************************************************)
\* NormalIndPower().solve_power(effect_size, alpha, power) for the effect size
\* 2*(arcsin(sqrt(p2)) - arcsin(sqrt(p1))), p2 = p1*(1 + mde): the solved n in
\* hundredths (rounded down), as <<p1.num, p1.den, mde, power, alpha, n>>
SolvePowerTable ==
    {<<2, 100, 100, 800, 50, 8063723>>,
     <<2, 100, 100, 900, 50, 10795059>>,
     <<2, 100, 50, 800, 50, 31516006>>,
     <<2, 100, 50, 900, 50, 42191079>>,
     <<3, 100, 100, 800, 50, 5318178>>,
     <<3, 100, 100, 900, 50, 7119547>>,
     <<3, 100, 50, 800, 50, 20790824>>,
     <<3, 100, 50, 900, 50, 27833073>>,
     <<5, 100, 100, 800, 50, 3121742>>,
     <<5, 100, 100, 900, 50, 4179136>>,
     <<5, 100, 50, 800, 50, 12210678>>,
     <<5, 100, 50, 900, 50, 16346667>>,
     <<1, 2, 100, 800, 50, 156452>>,
     <<1, 3, 100, 800, 50, 321241>>,
     <<2, 3, 100, 800, 50, 73965>>,
     <<1, 4, 100, 800, 50, 485991>>,
     <<3, 4, 100, 800, 50, 46373>>,
     <<1, 5, 100, 800, 50, 650733>>,
     <<1, 6, 100, 800, 50, 815470>>,
     <<1, 7, 100, 800, 50, 980206>>,
     <<2, 11, 100, 800, 50, 733102>>,
     <<9, 10, 100, 800, 50, 7992>>,
     <<2, 100, 100, 800, 500, 2186099>>,
     <<2, 100, 100, 900, 500, 3827960>>,
     <<2, 100, 50, 800, 500, 8544083>>,
     <<2, 100, 50, 900, 500, 14961084>>,
     <<3, 100, 100, 800, 500, 1441774>>,
     <<3, 100, 100, 900, 500, 2524613>>,
     <<3, 100, 50, 800, 500, 5636454>>,
     <<3, 100, 50, 900, 500, 9869692>>,
     <<5, 100, 100, 800, 500, 846313>>,
     <<5, 100, 100, 900, 500, 1481934>>,
     <<5, 100, 50, 800, 500, 3310351>>,
     <<5, 100, 50, 900, 500, 5796577>>,
     <<1, 2, 100, 800, 500, 42414>>,
     <<1, 3, 100, 800, 500, 87089>>,
     <<2, 3, 100, 800, 500, 20052>>,
     <<1, 4, 100, 800, 500, 131753>>,
     <<3, 4, 100, 800, 500, 12571>>,
     <<1, 5, 100, 800, 500, 176415>>,
     <<1, 6, 100, 800, 500, 221076>>,
     <<1, 7, 100, 800, 500, 265737>>,
     <<2, 11, 100, 800, 500, 198746>>,
     <<9, 10, 100, 800, 500, 2166>>}

SolvePower(p1, mde, power, a) ==
    (CHOOSE e \in SolvePowerTable :
        /\ e[1] * p1.den = p1.num * e[2]
        /\ e[3] = mde /\ e[4] = power /\ e[5] = a)[6]

\* np.ceil of a value held in hundredths
Ceil(hundredths) == (hundredths + 99) \div 100

\* 'per_variation': int(np.ceil(n))
SizePerVariation(n) == Ceil(n)

\* 'total': int(np.ceil(n * 2))
SizeTotal(n) == Ceil(2 * n)

SizeResult(baseline_rate, p2, mde, power, a, n) ==
    [baseline_rate |-> baseline_rate, target_rate |-> p2, mde |-> mde,
     power |-> power, alpha |-> a,
     per_variation |-> SizePerVariation(n), total |-> SizeTotal(n)]

\* the set of outcomes of sample_size_needed(baseline_rate, mde, power).
\* Nothing is validated.  np.sqrt / np.arcsin give NaN outside [0,1]; solve_power
\* raises ValueError on an effect size of 0; on a NaN effect size, or an alpha
\* or power outside (0,1), its root search cannot converge: it raises, or warns
\* and hands back its last iterate (the search starts from 100).
SampleSizeNeeded(a, baseline_rate, mde, power) ==
    LET p1 == baseline_rate
        p2 == Frac(p1.num * (1000 + mde), p1.den * 1000)
        defined(x) == x.num >= 0 /\ x.num <= x.den
        unconverged ==
            {Raise("ValueError"), Raise("RuntimeError"),
             Return(SizeResult(p1, p2, mde, power, a, 100 * 100))}
    IN  IF ~defined(p1) \/ ~defined(p2) THEN unconverged
        ELSE IF p1.num = 0 \/ mde = 0 THEN {Raise("ValueError")}
        ELSE IF a <= 0 \/ a >= 1000 \/ power <= 0 \/ power >= 1000 THEN unconverged
        ELSE {Return(SizeResult(p1, p2, mde, power, a, SolvePower(p1, mde, power, a)))}

(***************************************************************************)
(* get_summary                                                             *)
(***************************************************************************)
\* a plausible slip: groups in order of first appearance (groupby(sort=False))
RECURSIVE GroupKeysByAppearance(_)
GroupKeysByAppearance(df) ==
    IF df = <<>> THEN <<>>
    ELSE LET init == SubSeq(df, 1, Len(df) - 1)
             last == df[Len(df)].variation_name
         IN  IF \E i \in 1..Len(init) : init[i].variation_name = last
             THEN GroupKeysByAppearance(init)
             ELSE Append(GroupKeysByAppearance(init), last)

\* df.groupby('variation_name'): one group per name present, in sorted order
GroupKeys(df) ==
    SelectSeq(VariationOrder,
              LAMBDA v : \E i \in 1..Len(df) : df[i].variation_name = v)

\* a plausible slip: aov = revenue / conversions with the 0/0 case set to 0
SummaryRowAovZero(df, v) ==
    LET rows == FilterVariation(df, v)
        visitors == NUnique(rows)
        conversions == SumConverted(rows)
        revenue == SumRevenue(rows)
    IN  [variation |-> v, visitors |-> visitors, conversions |-> conversions,
         revenue |-> revenue,
         conv_rate |-> Frac(conversions, visitors),
         rpv |-> Frac(revenue, visitors),
         aov |-> IF conversions = 0 THEN Frac(0, 1) ELSE Frac(revenue, conversions)]

SummaryRow(df, v) ==
    LET rows == FilterVariation(df, v)
        visitors == NUnique(rows)
        conversions == SumConverted(rows)
        revenue == SumRevenue(rows)
    IN  [variation |-> v, visitors |-> visitors, conversions |-> conversions,
         revenue |-> revenue,
         conv_rate |-> Frac(conversions, visitors),
         rpv |-> Frac(revenue, visitors),
         \* revenue / conversions.replace(0, np.nan)
         aov |-> IF conversions = 0 THEN NaN ELSE Frac(revenue, conversions)]

\* the outcome of get_summary(experiment_name)
GetSummary(store, experiment_name) ==
    \* self.data is None: None[...] raises TypeError, None.groupby AttributeError
    IF ~store.loaded
    THEN Raise(IF experiment_name # None THEN "TypeError" ELSE "AttributeError")
    ELSE LET df == FilterExperiment(store.df, experiment_name)
             keys == GroupKeys(df)
         IN  Return([i \in 1..Len(keys) |-> SummaryRow(df, keys[i])])

(***************************************************************************)
(* analyze                                                                 *)
(***************************************************************************)
\* what an analyze call did besides returning: the treatment it compared, the
\* recommendation it printed, the sample_size_needed calls it made (a sequence
\* of at most one call, with its arguments and its outcome), and the entry it
\* stored (None where the call did not get that far)
Trace(treatment, recommendation, needed, stored) ==
    [treatment |-> treatment, recommendation |-> recommendation,
     needed |-> needed, stored |-> stored]

AnalyzeRaise(exc, treatment) ==
    [out |-> Raise(exc), trace |-> Trace(treatment, None, <<>>, None)]

\* a plausible slip: the observed sample taken to be the control arm alone
TotalVisitorsControlOnly(conv) == conv.control.n

\* total_visitors = conv['control']['n'] + conv['treatment']['n']
TotalVisitors(conv) == conv.control.n + conv.treatment.n

\* a plausible slip: two significant tests always give "implement", whether or
\* not they name the same winner
RecommendIgnoringWinners(a, summary, conv, rev, treatment) ==
    LET stored == [summary |-> summary, conversion |-> conv, revenue |-> rev]
        value  == [conversion |-> conv, revenue |-> rev]
        done(recommendation, needed) ==
            [out |-> Return(value),
             trace |-> Trace(treatment, recommendation, needed, stored)]
        total_visitors == TotalVisitors(conv)
        call(needed) == <<[baseline_rate |-> conv.control.rate, mde |-> 100,
                           out |-> needed]>>
    IN  IF conv.significant /\ rev.significant THEN {done("implement", <<>>)}
        ELSE IF conv.significant THEN {done("favor_conversion", <<>>)}
        ELSE IF rev.significant THEN {done("favor_revenue", <<>>)}
        ELSE { IF needed.status = "raise"
               THEN [out |-> Raise(needed.exc),
                     trace |-> Trace(treatment, None, call(needed), None)]
               ELSE IF total_visitors < needed.value.total
                    THEN done("continue", call(needed))
                    ELSE done("too_small", call(needed)) :
               needed \in SampleSizeNeeded(a, conv.control.rate, 100, 800) }

\* lines 408-444 and the store of lines 447-452, once both tests have returned
Recommend(a, summary, conv, rev, treatment) ==
    LET stored == [summary |-> summary, conversion |-> conv, revenue |-> rev]
        value  == [conversion |-> conv, revenue |-> rev]
        done(recommendation, needed) ==
            [out |-> Return(value),
             trace |-> Trace(treatment, recommendation, needed, stored)]
        total_visitors == TotalVisitors(conv)
        \* self.sample_size_needed(baseline_rate=conv['control']['rate'], mde=0.10)
        call(needed) == <<[baseline_rate |-> conv.control.rate, mde |-> 100,
                           out |-> needed]>>
    IN  IF conv.significant /\ rev.significant
        THEN IF conv.winner = rev.winner THEN {done("implement", <<>>)}
             ELSE {done("conflicting", <<>>)}
        ELSE IF conv.significant THEN {done("favor_conversion", <<>>)}
        ELSE IF rev.significant THEN {done("favor_revenue", <<>>)}
        ELSE { IF needed.status = "raise"
               THEN [out |-> Raise(needed.exc),
                     trace |-> Trace(treatment, None, call(needed), None)]
               ELSE IF total_visitors < needed.value.total
                    THEN done("continue", call(needed))
                    ELSE done("too_small", call(needed)) :
               needed \in SampleSizeNeeded(a, conv.control.rate, 100, 800) }

\* a plausible slip: a name that already has an entry keeps it (setdefault)
StoreKeepingFirst(results, experiment_name, o) ==
    IF o.out.status = "return" /\ o.trace.recommendation # None
           /\ experiment_name \notin DOMAIN results
    THEN [k \in DOMAIN results \cup {experiment_name} |->
            IF k = experiment_name THEN o.trace.stored ELSE results[k]]
    ELSE results

\* a plausible slip: the entry of the name is cleared when the call starts, and
\* written back only by a call that gets to the end
StoreClearingFirst(results, experiment_name, o) ==
    IF o.out.status = "return" /\ o.trace.recommendation # None
    THEN [k \in DOMAIN results \cup {experiment_name} |->
            IF k = experiment_name THEN o.trace.stored ELSE results[k]]
    ELSE [k \in DOMAIN results \ {experiment_name} |-> results[k]]

\* self.experiment_results[experiment_name] = {...}: the last statement before
\* the return of a result; a call that raised or returned None never reaches it
Store(results, experiment_name, o) ==
    IF o.out.status = "return" /\ o.trace.recommendation # None
    THEN [k \in DOMAIN results \cup {experiment_name} |->
            IF k = experiment_name THEN o.trace.stored ELSE results[k]]
    ELSE results

\* the set of outcomes of analyze(experiment_name, control, treatment)
Analyze(store, a, experiment_name, control, treatment0) ==
    LET summary == GetSummary(store, experiment_name)
    IN  IF summary.status = "raise" THEN {AnalyzeRaise(summary.exc, treatment0)}
        ELSE
        LET variations == [i \in 1..Len(summary.value) |-> summary.value[i].variation]
            treatment_candidates == SelectSeq(variations, LAMBDA v : v # control)
            treatment == IF treatment0 = None /\ treatment_candidates # <<>>
                         THEN treatment_candidates[1] ELSE treatment0
        IN  IF treatment0 = None /\ treatment_candidates = <<>>
            \* "Only one variation found": return None
            THEN {[out |-> Return(None), trace |-> Trace(None, None, <<>>, None)]}
            ELSE UNION {
                IF conv.status = "raise" THEN {AnalyzeRaise(conv.exc, treatment)}
                ELSE UNION {
                    IF rev.status = "raise" THEN {AnalyzeRaise(rev.exc, treatment)}
                    ELSE Recommend(a, summary.value, conv.value, rev.value, treatment) :
                    rev \in TestRevenue(store, a, control, treatment, experiment_name) } :
                conv \in TestConversionRate(store, a, control, treatment, experiment_name) }

(***************************************************************************)
(* State machine                                                           *)
(***************************************************************************)
\* the experiment_name arguments: the experiments of the data, or omitted
ExperimentArgs == Experiments \cup {None}

\* the treatment arguments of analyze: named, or omitted
TreatmentArgs == {"A", "B", None}

\* baseline_rate, mde and power arguments of direct sample_size_needed calls:
\* the scenarios of main(), and values outside (0,1)
BaselineRates ==
    {Frac(2, 100), Frac(3, 100), Frac(5, 100), Frac(0, 1), Frac(99, 100),
     Frac(3, 2)}

Mdes == {100, 50}

Powers == {800, 900, 0}

\* concurrent callers of analyze
Threads == {1, 2}

\* a caller that has not called yet; 'outcome' holds the outcome of the
\* caller's analyze once it is computed
IdleThread ==
    [pc |-> "idle", experiment_name |-> None, treatment |-> None, outcome |-> <<>>]

\* get_visits_with_ab_test_data not called yet
IdleFetch ==
    [pc |-> "idle", max_visits |-> 0, total_visits |-> 0, offset |-> 0,
     all_visits_data |-> <<>>]

Called(op, args, out, trace) ==
    [op |-> op, args |-> args, status |-> out.status, exc |-> out.exc,
     value |-> out.value, trace |-> trace]

\* __init__(alpha): alpha is stored unchecked, no data, no results
Init ==
    /\ alpha \in Alphas
    /\ data = NoData
    /\ experiment_results = [e \in {} |-> None]
    /\ ret = Called("__init__", <<alpha>>, Return(None), None)
    /\ threads = [i \in Threads |-> IdleThread]
    /\ fetch = IdleFetch

\* load_dataframe(df); a session loads its data once
load_dataframe ==
    /\ ~data.loaded
    /\ \E df \in DataFrames :
        /\ data' = Loaded(df)
        /\ ret' = Called("load_dataframe", <<>>, Return(None), None)
    /\ UNCHANGED <<alpha, experiment_results, threads, fetch>>

\* The two tests, the calculator and get_summary read self.data and self.alpha
\* and assign no attribute, so what a call returns does not depend on the
\* calls before it: the direct calls are taken on the analyzer as loaded.
Fresh == ret.op \in {"__init__", "load_dataframe"}

get_summary ==
    /\ \E e \in ExperimentArgs :
        ret' = Called("get_summary", <<e>>, GetSummary(data, e), None)
    /\ UNCHANGED <<alpha, data, experiment_results, threads, fetch>>

test_conversion_rate ==
    /\ Fresh
    /\ \E c \in Variations, t \in Variations, e \in ExperimentArgs :
        \E out \in TestConversionRate(data, alpha, c, t, e) :
            ret' = Called("test_conversion_rate", <<c, t, e>>, out, None)
    /\ UNCHANGED <<alpha, data, experiment_results, threads, fetch>>

test_revenue ==
    /\ Fresh
    /\ \E c \in Variations, t \in Variations, e \in ExperimentArgs :
        \E out \in TestRevenue(data, alpha, c, t, e) :
            ret' = Called("test_revenue", <<c, t, e>>, out, None)
    /\ UNCHANGED <<alpha, data, experiment_results, threads, fetch>>

sample_size_needed ==
    /\ Fresh
    /\ \E b \in BaselineRates, m \in Mdes, p \in Powers :
        \E out \in SampleSizeNeeded(alpha, b, m, p) :
            ret' = Called("sample_size_needed", <<b, m, p>>, out, None)
    /\ UNCHANGED <<alpha, data, experiment_results, threads, fetch>>

analyze ==
    \* control keeps its default, 'Original'
    /\ \E e \in ExperimentArgs, t \in TreatmentArgs :
        \E o \in Analyze(data, alpha, e, "Original", t) :
            /\ ret' = Called("analyze", <<e, "Original", t>>, o.out, o.trace)
            /\ experiment_results' = Store(experiment_results, e, o)
    /\ UNCHANGED <<alpha, data, threads, fetch>>

\* an analysis session: load, summarise, analyze
Next == load_dataframe \/ get_summary \/ analyze

Spec == Init /\ [][Next]_vars

\* direct calls of the two tests and of the sample-size calculator
NextTests ==
    load_dataframe \/ test_conversion_rate \/ test_revenue \/ sample_size_needed

SpecTests == Init /\ [][NextTests]_vars

(***************************************************************************)
(* Concurrent callers of analyze                                           *)
(***************************************************************************)
\* the data of the concurrent sessions: two complete experiments, and an
\* experiment next to one that has the control only
ThreadDataFrames ==
    {TwoExperiments,
     MkArm("exp1", "Original", 0, 2, 1, 50) \o MkArm("exp1", "B", 10, 2, 2, 50)
        \o OtherExperiment}

ThreadTreatmentArgs == {"B", None}

\* an analyzer with its data loaded and no caller yet
InitThreads ==
    /\ alpha \in Alphas
    /\ data \in {Loaded(df) : df \in ThreadDataFrames}
    /\ experiment_results = [e \in {} |-> None]
    /\ ret = Called("load_dataframe", <<>>, Return(None), None)
    /\ threads = [i \in Threads |-> IdleThread]
    /\ fetch = IdleFetch

\* a plausible slip: the store rebinds the whole mapping to the one new entry
ThreadStoreReplacingAll(results, t) ==
    Store([k \in {} |-> None], t.experiment_name, t.outcome[1])

\* the store of a caller: self.experiment_results[experiment_name] = {...},
\* one dict assignment on the mapping as it is at that moment
ThreadStore(results, t) == Store(results, t.experiment_name, t.outcome[1])

\* a caller runs analyze up to the store: get_summary, the two tests and the
\* recommendation read self.data and self.alpha and assign only locals
thread_analyze ==
    /\ \E i \in Threads :
        /\ threads[i].pc = "idle"
        /\ \E e \in ExperimentArgs, t \in ThreadTreatmentArgs :
            \E o \in Analyze(data, alpha, e, "Original", t) :
                threads' = [threads EXCEPT ![i] =
                    [pc |-> "analyzed", experiment_name |-> e, treatment |-> t,
                     outcome |-> <<o>>]]
    /\ UNCHANGED <<alpha, data, experiment_results, ret, fetch>>

\* the caller stores its result (if it has one) and returns
thread_store ==
    /\ \E i \in Threads :
        /\ threads[i].pc = "analyzed"
        /\ experiment_results' = ThreadStore(experiment_results, threads[i])
        /\ threads' = [threads EXCEPT ![i].pc = "done"]
    /\ UNCHANGED <<alpha, data, ret, fetch>>

NextThreads == thread_analyze \/ thread_store

SpecThreads == InitThreads /\ [][NextThreads]_vars

(***************************************************************************)
(* matomo_ab_test_extract.py: get_visits_with_ab_test_data                 *)
(***************************************************************************)
\* limit = 100: the page size asked of Live.getLastVisitsDetails
limit == 100

\* max_visits arguments, multiples of the page size and not
MaxVisitsArgs == {50, 150, 200}

\* nb_visits of the VisitsSummary.get response; 0 also stands for a failed
\* request (the bare except sets total_visits = 0)
NbVisitsResponses == {0, 30, 170, 250}

\* responses to a page request: a failed request, an error document, or a list
\* of at most 'limit' visits (possibly empty)
PageResponses ==
    {[kind |-> "exception", n |-> 0], [kind |-> "error", n |-> 0]}
        \cup {[kind |-> "visits", n |-> k] : k \in {0, 40, limit}}

Min(a, b) == IF a <= b THEN a ELSE b

\* lines 102-131: the visit count is asked first; no visits, return []
get_visits_call ==
    /\ fetch.pc = "idle"
    /\ ret.op = "import"
    /\ \E max_visits \in MaxVisitsArgs, nb_visits \in NbVisitsResponses :
        fetch' = IF nb_visits = 0
                 THEN [pc |-> "returned", max_visits |-> max_visits,
                       total_visits |-> 0, offset |-> 0, all_visits_data |-> <<>>]
                 ELSE [pc |-> "loop", max_visits |-> max_visits,
                       total_visits |-> Min(nb_visits, max_visits),
                       offset |-> 0, all_visits_data |-> <<>>]
    /\ UNCHANGED <<alpha, data, experiment_results, ret, threads>>

\* one iteration of 'while offset < total_visits': a failed request, an error
\* document or an empty page breaks out of the loop; any other page is
\* appended whole and offset moves on by 'limit'
get_visits_page ==
    /\ fetch.pc = "loop"
    /\ fetch.offset < fetch.total_visits
    /\ \E page \in PageResponses :
        fetch' = IF page.kind # "visits" \/ page.n = 0
                 THEN [fetch EXCEPT !.pc = "returned"]
                 ELSE [fetch EXCEPT
                        !.all_visits_data =
                            @ \o [j \in 1..page.n |-> fetch.offset + j],
                        !.offset = @ + limit]
    /\ UNCHANGED <<alpha, data, experiment_results, ret, threads>>

\* the loop condition fails: return all_visits_data
get_visits_return ==
    /\ fetch.pc = "loop"
    /\ fetch.offset >= fetch.total_visits
    /\ fetch' = [fetch EXCEPT !.pc = "returned"]
    /\ UNCHANGED <<alpha, data, experiment_results, ret, threads>>

(***************************************************************************)
(* matomo_ab_test_extract.py: extract_ab_test_info_from_visits             *)
(***************************************************************************)
\* longest visits_data list given to extract_ab_test_info_from_visits
MaxVisitList == 2

\* a key of a JSON object that may be missing: <<>> when missing, <<v>> when set
Absent == <<>>

Present(v) == <<v>>

\* d.get(key, default); d.get(key) is Get(x, None) and stays optional here
Get(x, default) == IF x = Absent THEN default ELSE x[1]

\* truth value of an optional string: None and "" are false
Truthy(x) == x # Absent /\ x[1] # ""

\* 'order' in s.lower(), on the event strings of the modelled visits
ContainsOrder(s) == s \in {"Order Placed", "order-confirm"}

\* s.isdigit(), on the event strings of the modelled visits
IsDigit(s) == s \in {"12345"}

\* the 'experiments' field: missing or empty, an experiment with its
\* variation, an experiment without one
ExperimentsFields ==
    {<<>>,
     <<[idexperiment |-> 7, name |-> "exp1",
        variation |-> Present([idvariation |-> 2, name |-> "B"])]>>,
     <<[idexperiment |-> 7, name |-> "exp1", variation |-> Absent]>>}

\* the 'goalConversions' field: none, an ecommerce order worth 80, another goal
GoalConversionsFields ==
    {<<>>,
     <<[goalName |-> "Ecommerce Order", idGoal |-> 0, revenue |-> Present(80)]>>,
     <<[goalName |-> "Newsletter", idGoal |-> 3, revenue |-> Present(5)]>>}

\* the 'actionDetails' field: none, an ecommerce order action, an order event
\* that carries the order number as its name, a plain page view
ActionDetailsFields ==
    {<<>>,
     <<[type |-> "ecommerceOrder", orderId |-> Present("A100"),
        revenue |-> Present(80), eventAction |-> "", eventName |-> ""]>>,
     <<[type |-> "event", orderId |-> Absent, revenue |-> Absent,
        eventAction |-> "Order Placed", eventName |-> "12345"]>>,
     <<[type |-> "action", orderId |-> Absent, revenue |-> Absent,
        eventAction |-> "", eventName |-> ""]>>}

Visits ==
    {[idVisit |-> 1, visitorId |-> "v1", experiments |-> e,
      goalConversions |-> g, actionDetails |-> a] :
        e \in ExperimentsFields, g \in GoalConversionsFields,
        a \in ActionDetailsFields}

VisitLists == UNION {[1..n -> Visits] : n \in 1..MaxVisitList}

Regions == {"UK", "US"}

\* lines 201-206: every ecommerce goal conversion sets order_revenue
RECURSIVE GoalLoop(_, _)
GoalLoop(goal_conversions, order_revenue) ==
    IF goal_conversions = <<>> THEN order_revenue
    ELSE LET conversion == Head(goal_conversions)
         IN  GoalLoop(Tail(goal_conversions),
                 IF conversion.goalName = "Ecommerce Order" \/ conversion.idGoal = 0
                 THEN Present(Get(conversion.revenue, 0))
                 ELSE order_revenue)

\* lines 210-224: an ecommerceOrder action sets order_number and
\* order_revenue; an order event with an all-digit name sets order_number
RECURSIVE ActionLoop(_, _)
ActionLoop(action_details, acc) ==
    IF action_details = <<>> THEN acc
    ELSE LET action == Head(action_details)
             acc1 == IF action.type = "ecommerceOrder"
                     THEN [order_number |-> action.orderId,
                           order_revenue |-> Present(Get(action.revenue, 0))]
                     ELSE acc
             acc2 == IF (ContainsOrder(action.eventAction)
                            \/ ContainsOrder(action.eventName))
                        /\ action.eventName # "" /\ IsDigit(action.eventName)
                     THEN [acc1 EXCEPT !.order_number = Present(action.eventName)]
                     ELSE acc1
         IN  ActionLoop(Tail(action_details), acc2)

\* 'order_revenue': order_revenue, whatever order_number is
RecordRevenue(order_number, order_revenue) == order_revenue

\* the records one visit contributes: none or one
ExtractVisit(visit, region) ==
    LET experiments == visit.experiments
        found == Len(experiments) > 0
        variation == IF found THEN experiments[1].variation ELSE Absent
        ab_test_id == IF found THEN Present(experiments[1].idexperiment) ELSE Absent
        ab_test_name == IF found THEN Present(experiments[1].name) ELSE Absent
        variation_id == IF variation # Absent
                        THEN Present(variation[1].idvariation) ELSE Absent
        ab_test_variation == IF variation # Absent
                             THEN Present(variation[1].name) ELSE Absent
        acc == ActionLoop(visit.actionDetails,
                   [order_number |-> Absent,
                    order_revenue |-> GoalLoop(visit.goalConversions, Absent)])
    IN  IF Truthy(ab_test_variation) \/ Truthy(acc.order_number)
        THEN <<[region |-> region,
                visit_id |-> visit.idVisit,
                visitor_id |-> visit.visitorId,
                experiment_id |-> ab_test_id,
                experiment_name |-> ab_test_name,
                variation_id |-> variation_id,
                variation_name |-> ab_test_variation,
                order_number |-> acc.order_number,
                order_revenue |-> RecordRevenue(acc.order_number, acc.order_revenue),
                converted |-> IF Truthy(acc.order_number) THEN 1 ELSE 0]>>
        ELSE <<>>

RECURSIVE ExtractRecords(_, _)
ExtractRecords(visits_data, region) ==
    IF visits_data = <<>> THEN <<>>
    ELSE ExtractVisit(Head(visits_data), region)
            \o ExtractRecords(Tail(visits_data), region)

\* return pd.DataFrame(records) if records else None
ExtractAbTestInfoFromVisits(visits_data, region) ==
    LET records == ExtractRecords(visits_data, region)
    IN  Return(IF records = <<>> THEN NoData ELSE Loaded(records))

extract_ab_test_info_from_visits ==
    /\ ret.op = "import"
    /\ fetch.pc = "idle"
    /\ \E visits_data \in VisitLists, region \in Regions :
        ret' = Called("extract_ab_test_info_from_visits", <<visits_data, region>>,
                      ExtractAbTestInfoFromVisits(visits_data, region), None)
    /\ UNCHANGED <<alpha, data, experiment_results, threads, fetch>>

\* the extractor module as imported: no call made yet (the analyzer's
\* variables keep the values of a default construction)
InitExtract ==
    /\ alpha = 50
    /\ data = NoData
    /\ experiment_results = [e \in {} |-> None]
    /\ ret = Called("import", <<>>, Return(None), None)
    /\ threads = [i \in Threads |-> IdleThread]
    /\ fetch = IdleFetch

NextExtract ==
    \/ get_visits_call \/ get_visits_page \/ get_visits_return
    \/ extract_ab_test_info_from_visits

SpecExtract == InitExtract /\ [][NextExtract]_vars

(***************************************************************************)
(* Properties                                                              *)
(***************************************************************************)
\* the rows of variation v in the loaded data, filtered to experiment e
ArmRows(e, v) == FilterVariation(FilterExperiment(data.df, e), v)

Returned(op) == ret.op = op /\ ret.status = "return"

InUnitInterval(x) == x.den > 0 /\ x.num >= 0 /\ x.num <= x.den

\* some visitor has two or more converted rows
RepeatedConverter(rows) ==
    \E i, j \in 1..Len(rows) :
        /\ i < j
        /\ rows[i].visitor_id = rows[j].visitor_id
        /\ rows[i].converted = 1 /\ rows[j].converted = 1

\* C1: whenever test_conversion_rate returns a result for two arms that both
\* have at least one visitor, the rate it reports for each arm lies in [0,1].
C1_RatesInUnitInterval ==
    (/\ Returned("test_conversion_rate")
     /\ ret.value.control.n > 0
     /\ ret.value.treatment.n > 0)
    => /\ InUnitInterval(ret.value.control.rate)
       /\ InUnitInterval(ret.value.treatment.rate)

\* a result was returned for a control arm in which one visitor has several
\* converted rows
C1_Witness ==
    /\ Returned("test_conversion_rate")
    /\ ret.value.control.n > 0
    /\ ret.value.treatment.n > 0
    /\ RepeatedConverter(ArmRows(ret.args[3], ret.args[1]))

\* C2: the winner of test_conversion_rate and of test_revenue is the control
\* name, the treatment name or "Inconclusive", and it is "Inconclusive"
\* whenever p_value >= alpha.
C2_WinnerGated ==
    (ret.op \in {"test_conversion_rate", "test_revenue"} /\ ret.status = "return")
    => /\ ret.value.winner \in {ret.args[1], ret.args[2], "Inconclusive"}
       /\ PGeq(ret.value.p_value, alpha) => ret.value.winner = "Inconclusive"

\* at alpha = 0.05 the treatment's rate is higher but p_value >= alpha
C2_Witness ==
    /\ Returned("test_conversion_rate")
    /\ alpha = 50
    /\ PGeq(ret.value.p_value, alpha)
    /\ FracGT(ret.value.treatment.rate, ret.value.control.rate)
    /\ ret.value.winner = "Inconclusive"

\* C3 (as claimed): test_conversion_rate raises DataError whenever a named arm
\* has no visitor in the filtered data.
C3_EmptyArmRaisesDataError ==
    (/\ ret.op = "test_conversion_rate"
     /\ data.loaded
     /\ \/ NUnique(ArmRows(ret.args[3], ret.args[1])) = 0
        \/ NUnique(ArmRows(ret.args[3], ret.args[2])) = 0)
    => ret.status = "raise" /\ ret.exc = "DataError"

\* C4 (as claimed): analyze returns a result whenever the control and the
\* treatment it compares both have at least one visitor.
C4_AnalyzeCompletes ==
    (/\ ret.op = "analyze"
     /\ data.loaded
     /\ ret.trace.treatment # None
     /\ NUnique(ArmRows(ret.args[1], ret.args[2])) > 0
     /\ NUnique(ArmRows(ret.args[1], ret.trace.treatment)) > 0)
    => ret.status = "return"

\* n and mean_rpv of one arm of a revenue result, against the arm's rows
RevenueArmOverAllVisitors(arm, rows) ==
    /\ arm.n = NUnique(rows)
    /\ arm.n > 0 => /\ arm.mean_rpv.den > 0
                    /\ arm.mean_rpv.num * arm.n = SumRevenue(rows) * arm.mean_rpv.den

\* C5: test_revenue reports for each arm n = the arm's distinct visitors and
\* mean_rpv = the arm's total order_revenue / n; with 10 visitors per arm of
\* whom 2 buy for 50, mean_rpv is 10 for both arms.
C5_RevenuePerVisitor ==
    Returned("test_revenue")
    => /\ RevenueArmOverAllVisitors(ret.value.control,
                                    ArmRows(ret.args[3], ret.args[1]))
       /\ RevenueArmOverAllVisitors(ret.value.treatment,
                                    ArmRows(ret.args[3], ret.args[2]))
       /\ (data.df = TenVisitorsTwoBuyers
           /\ ret.args[1] = "Original" /\ ret.args[2] = "B"
           /\ ret.args[3] \in {"exp1", None})
          => /\ FracEQ(ret.value.control.mean_rpv, Frac(10, 1))
             /\ FracEQ(ret.value.treatment.mean_rpv, Frac(10, 1))

\* the 10-visitor example was tested
C5_Witness ==
    /\ Returned("test_revenue")
    /\ data.df = TenVisitorsTwoBuyers
    /\ ret.args = <<"Original", "B", "exp1">>
    /\ ret.value.control.n = 10
    /\ ret.value.control.total_revenue = 100

\* C6 (as claimed): a significant test_revenue names the arm with the strictly
\* higher mean revenue per visitor.
C6_WinnerHasHigherMean ==
    (/\ Returned("test_revenue")
     /\ alpha > 0 /\ alpha < 1000
     /\ ret.value.significant)
    => \/ /\ ret.value.winner = ret.args[2]
          /\ FracGT(ret.value.treatment.mean_rpv, ret.value.control.mean_rpv)
       \/ /\ ret.value.winner = ret.args[1]
          /\ FracGT(ret.value.control.mean_rpv, ret.value.treatment.mean_rpv)

\* C6 (amended): a significant test_revenue names the treatment when
\* mean2 > mean1 and the control otherwise, equal means included.
C6_WinnerTreatmentIffHigher ==
    (Returned("test_revenue") /\ ret.value.significant)
    => IF FracGT(ret.value.treatment.mean_rpv, ret.value.control.mean_rpv)
       THEN ret.value.winner = ret.args[2]
       ELSE ret.value.winner = ret.args[1]

\* at alpha = 0.05 a significant result between two different arms of equal mean
C6_Witness ==
    /\ Returned("test_revenue")
    /\ alpha = 50
    /\ ret.value.significant
    /\ ret.args[1] # ret.args[2]
    /\ FracEQ(ret.value.control.mean_rpv, ret.value.treatment.mean_rpv)

\* baseline_rate and target rate in (0,1), power and alpha in (0,1)
ValidSizeArgs(b, mde, power, a) ==
    /\ b.num > 0 /\ b.num < b.den
    /\ b.num * (1000 + mde) < b.den * 1000
    /\ power > 0 /\ power < 1000
    /\ a > 0 /\ a < 1000

\* C7 (as claimed): for valid arguments, total = 2 * per_variation.
C7_TotalIsTwicePerArm ==
    (/\ Returned("sample_size_needed")
     /\ ValidSizeArgs(ret.args[1], ret.args[2], ret.args[3], alpha))
    => ret.value.total = 2 * ret.value.per_variation

\* C8 (as claimed): an invalid configuration is rejected with ConfigError:
\* sample_size_needed with baseline or target rate outside (0,1) or a
\* non-positive power, and either test under an alpha outside (0,1).
C8_InvalidConfigRaisesConfigError ==
    (\/ /\ ret.op = "sample_size_needed"
        /\ \/ ret.args[1].num <= 0
           \/ ret.args[1].num >= ret.args[1].den
           \/ ret.args[1].num * (1000 + ret.args[2]) >= ret.args[1].den * 1000
           \/ ret.args[3] <= 0
     \/ /\ ret.op \in {"test_conversion_rate", "test_revenue"}
        /\ (alpha <= 0 \/ alpha >= 1000))
    => ret.status = "raise" /\ ret.exc = "ConfigError"

\* the names other than control among the filtered rows
OtherVariations(e, control) ==
    {r.variation_name : r \in {FilterExperiment(data.df, e)[i] :
                                 i \in 1..Len(FilterExperiment(data.df, e))}}
        \ {control}

\* C9 (as claimed): analyze without a treatment, on data holding no variation
\* but the control, raises DataError.
C9_SingleVariationRaisesDataError ==
    (/\ ret.op = "analyze"
     /\ ret.args[3] = None
     /\ data.loaded
     /\ OtherVariations(ret.args[1], ret.args[2]) = {})
    => ret.status = "raise" /\ ret.exc = "DataError"

\* position of the first row of variation v
FirstRow(df, v) == CHOOSE i \in 1..Len(df) :
    /\ df[i].variation_name = v
    /\ \A j \in 1..(i - 1) : df[j].variation_name # v

\* position of a name in Python's string order
Rank(v) == CHOOSE i \in 1..Len(VariationOrder) : VariationOrder[i] = v

AutoDetected(e) ==
    /\ ret.op = "analyze"
    /\ ret.args[3] = None
    /\ data.loaded
    /\ Cardinality(OtherVariations(e, ret.args[2])) >= 2

\* C10 (as claimed): the auto-detected treatment is the non-control variation
\* whose rows appear first in the filtered data.
C10_FirstByAppearance ==
    AutoDetected(ret.args[1])
    => /\ ret.trace.treatment \in OtherVariations(ret.args[1], ret.args[2])
       /\ \A v \in OtherVariations(ret.args[1], ret.args[2]) :
            FirstRow(FilterExperiment(data.df, ret.args[1]), ret.trace.treatment)
                <= FirstRow(FilterExperiment(data.df, ret.args[1]), v)

\* C10 (amended): the auto-detected treatment is the non-control variation
\* whose name is smallest in string order (the order of get_summary's groups).
C10_FirstByName ==
    AutoDetected(ret.args[1])
    => /\ ret.trace.treatment \in OtherVariations(ret.args[1], ret.args[2])
       /\ \A v \in OtherVariations(ret.args[1], ret.args[2]) :
            Rank(ret.trace.treatment) <= Rank(v)

\* an auto-detecting analyze returned a result although another non-control
\* variation appears earlier in the data
C10_Witness ==
    /\ AutoDetected(ret.args[1])
    /\ ret.status = "return"
    /\ ret.value.conversion.treatment.name = ret.trace.treatment
    /\ \E v \in OtherVariations(ret.args[1], ret.args[2]) :
        FirstRow(FilterExperiment(data.df, ret.args[1]), v)
            < FirstRow(FilterExperiment(data.df, ret.args[1]), ret.trace.treatment)

\* an analyze call that returned a result (not None)
AnalyzeResult == Returned("analyze") /\ ret.trace.recommendation # None

\* C11: the recommendation of an analyze that returns a result is fixed by the
\* two significance flags and the two winners: "implement" iff both tests are
\* significant and name the same winner, "conflicting" iff both are significant
\* and name different winners, the favoured metric iff exactly one test is
\* significant, and the sample-size branch ("continue" or "too_small") iff
\* neither is; the five cases are exclusive and one of them always applies.
C11_RecommendationByFlags ==
    AnalyzeResult =>
        LET c == ret.value.conversion
            r == ret.value.revenue
            rec == ret.trace.recommendation
        IN  /\ rec \in {"implement", "conflicting", "favor_conversion",
                        "favor_revenue", "continue", "too_small"}
            /\ rec = "implement"
                <=> (c.significant /\ r.significant /\ c.winner = r.winner)
            /\ rec = "conflicting"
                <=> (c.significant /\ r.significant /\ c.winner # r.winner)
            /\ rec = "favor_conversion" <=> (c.significant /\ ~r.significant)
            /\ rec = "favor_revenue" <=> (~c.significant /\ r.significant)
            /\ rec \in {"continue", "too_small"}
                <=> (~c.significant /\ ~r.significant)

\* with alpha inside (0,1), conversion significantly favours one arm and
\* revenue the other: the conflicting signal
C11_Witness ==
    /\ AnalyzeResult
    /\ alpha < 1000
    /\ ret.value.conversion.significant /\ ret.value.revenue.significant
    /\ ret.value.conversion.winner # ret.value.revenue.winner
    /\ ret.trace.recommendation = "conflicting"

\* the sample_size_needed calls made by the analyze call just taken
PowerCalls == ret.trace.needed

\* C12: analyze calls sample_size_needed at most once; an analyze that returns
\* a result has called it iff neither test is significant; the call is made
\* with baseline_rate = the control's observed conversion rate and mde = 0.10;
\* and the recommendation is "continue" exactly when control n + treatment n is
\* strictly below the computed total, "too_small" otherwise.
C12_PowerAnalyzerOnlyWhenInconclusive ==
    (ret.op = "analyze" /\ data.loaded) =>
        /\ Len(PowerCalls) <= 1
        /\ Len(PowerCalls) = 1 =>
            LET rows == ArmRows(ret.args[1], ret.args[2])
            IN  /\ PowerCalls[1].baseline_rate = Rate(SumConverted(rows), NUnique(rows))
                /\ PowerCalls[1].mde = 100
        /\ AnalyzeResult =>
            LET c == ret.value.conversion
                r == ret.value.revenue
            IN  /\ Len(PowerCalls) = 1 <=> (~c.significant /\ ~r.significant)
                /\ Len(PowerCalls) = 1 =>
                    /\ PowerCalls[1].baseline_rate = c.control.rate
                    /\ PowerCalls[1].out.status = "return"
                    /\ IF c.control.n + c.treatment.n < PowerCalls[1].out.value.total
                       THEN ret.trace.recommendation = "continue"
                       ELSE ret.trace.recommendation = "too_small"

\* 50 visitors where 44 are required (alpha = 0.5): neither test is
\* significant, the calculator was asked, and the observed sample is not
\* below the requirement
C12_Witness ==
    /\ AnalyzeResult
    /\ alpha = 500
    /\ ~ret.value.conversion.significant /\ ~ret.value.revenue.significant
    /\ Len(PowerCalls) = 1
    /\ PowerCalls[1].out.value.total = 44
    /\ ret.value.conversion.control.n + ret.value.conversion.treatment.n = 50
    /\ ret.trace.recommendation = "too_small"

\* the step just taken was an analyze call that returned a result
AnalyzeSucceeded == ret'.op = "analyze" /\ ret'.status = "return"
                        /\ ret'.trace.recommendation # None

\* C13: an analyze that returns a result leaves experiment_results with the
\* keys it had plus the analyzed name, that name mapped to the result of this
\* call (its summary, conversion and revenue), and every other name mapped as
\* before; so the mapping always holds, per name, the latest result.
C13_LatestResultPerName ==
    [][AnalyzeSucceeded =>
        /\ DOMAIN experiment_results' = DOMAIN experiment_results \cup {ret'.args[1]}
        /\ experiment_results'[ret'.args[1]] =
                [summary |-> GetSummary(data, ret'.args[1]).value,
                 conversion |-> ret'.value.conversion,
                 revenue |-> ret'.value.revenue]
        /\ \A k \in DOMAIN experiment_results \ {ret'.args[1]} :
                experiment_results'[k] = experiment_results[k]]_vars

\* two names hold results, and the entry of the name analyzed last is the
\* result of an explicit-treatment call although the auto-detected treatment
\* of that name is another one
C13_Witness ==
    /\ AnalyzeResult
    /\ Cardinality(DOMAIN experiment_results) >= 2
    /\ experiment_results[ret.args[1]].conversion = ret.value.conversion
    /\ ret.args[3] = "B"
    /\ Cardinality(OtherVariations(ret.args[1], "Original")) >= 2

\* the step just taken was an analyze call that raised or returned None
AnalyzeFailed == ret'.op = "analyze"
                    /\ (ret'.status = "raise" \/ ret'.trace.recommendation = None)

\* C14: an analyze that raises, or that returns None for want of a second
\* variation, leaves experiment_results exactly as it was.
C14_FailureLeavesResults ==
    [][AnalyzeFailed => experiment_results' = experiment_results]_vars

\* an analyze raised for a name that holds a result of an earlier call
C14_Witness ==
    /\ ret.op = "analyze"
    /\ ret.status = "raise"
    /\ ret.args[1] \in DOMAIN experiment_results

\* the caller's analyze returned a result
ThreadSucceeded(t) ==
    /\ t.outcome # <<>>
    /\ t.outcome[1].out.status = "return"
    /\ t.outcome[1].trace.recommendation # None

\* the entries a lone analyze(experiment_name, treatment) call can store
SequentialEntries(t) ==
    {o.trace.stored :
        o \in {x \in Analyze(data, alpha, t.experiment_name, "Original", t.treatment) :
                x.out.status = "return" /\ x.trace.recommendation # None}}

DifferentNamesDone ==
    /\ \A i \in Threads : threads[i].pc = "done"
    /\ threads[1].experiment_name # threads[2].experiment_name

\* C15: no step of two interleaved analyze calls changes the loaded records,
\* and once two calls for different experiment names are both done, in any
\* interleaving, experiment_results holds exactly the names whose call
\* returned a result, each mapped to the entry that call computed, which is an
\* entry a sequential run of the same call stores.
C15_InterleavedDifferentNames ==
    /\ [][data' = data]_vars
    /\ [](DifferentNamesDone =>
            /\ DOMAIN experiment_results =
                    {threads[i].experiment_name :
                        i \in {j \in Threads : ThreadSucceeded(threads[j])}}
            /\ \A i \in Threads : ThreadSucceeded(threads[i]) =>
                    /\ experiment_results[threads[i].experiment_name]
                            = threads[i].outcome[1].trace.stored
                    /\ experiment_results[threads[i].experiment_name]
                            \in SequentialEntries(threads[i]))

\* two calls for different names are done, both returned a result
C15_Witness ==
    /\ DifferentNamesDone
    /\ \A i \in Threads : ThreadSucceeded(threads[i])
    /\ Cardinality(DOMAIN experiment_results) = 2

\* the variation names among the rows
NamesPresent(rows) == {rows[i].variation_name : i \in 1..Len(rows)}

\* C16: get_summary returns one entry per distinct variation_name of the
\* (optionally experiment-filtered) records and no other entry; each entry has
\* visitors = the variation's distinct visitor_id count, at least 1,
\* conversions = its sum of converted, revenue = its sum of order_revenue, and
\* an undefined aov (NaN, not 0) whenever conversions = 0.
C16_SummaryPerVariation ==
    Returned("get_summary") =>
        LET df == FilterExperiment(data.df, ret.args[1])
            summary == ret.value
        IN  /\ {summary[i].variation : i \in 1..Len(summary)} = NamesPresent(df)
            /\ Len(summary) = Cardinality(NamesPresent(df))
            /\ \A i \in 1..Len(summary) :
                LET rows == FilterVariation(df, summary[i].variation)
                IN  /\ summary[i].visitors = NUnique(rows)
                    /\ summary[i].visitors >= 1
                    /\ summary[i].conversions = SumConverted(rows)
                    /\ summary[i].revenue = SumRevenue(rows)
                    /\ summary[i].conversions = 0 => IsNaN(summary[i].aov)
                    /\ summary[i].conversions # 0 =>
                        summary[i].aov = Frac(SumRevenue(rows), SumConverted(rows))

\* a summary of an experiment's three variations, one of them without a
\* conversion, while the data hold another experiment as well
C16_Witness ==
    /\ Returned("get_summary")
    /\ ret.args[1] = "exp1"
    /\ Len(ret.value) = 3
    /\ \E i \in 1..Len(ret.value) :
        ret.value[i].conversions = 0 /\ IsNaN(ret.value[i].aov)
    /\ Len(FilterExperiment(data.df, "exp2")) > 0

\* C19 (as claimed): in every result of test_conversion_rate and test_revenue,
\* significant is true iff winner is not the string "Inconclusive", whatever
\* the control and the treatment are named.
C19_SignificantIffWinnerNamed ==
    (ret.op \in {"test_conversion_rate", "test_revenue"} /\ ret.status = "return")
    => (ret.value.significant <=> ret.value.winner # "Inconclusive")

\* C17 (as claimed): get_visits_with_ab_test_data never returns more than
\* max_visits visits.
C17_AtMostMaxVisits ==
    fetch.pc = "returned" => Len(fetch.all_visits_data) <= fetch.max_visits

\* C18 (as claimed): every record emitted by extract_ab_test_info_from_visits
\* with converted = 0 carries no revenue: its order_revenue is 0 or absent.
C18_NoRevenueWithoutConversion ==
    (Returned("extract_ab_test_info_from_visits") /\ ret.value.loaded)
    => \A i \in 1..Len(ret.value.df) :
            ret.value.df[i].converted = 0
                => Get(ret.value.df[i].order_revenue, 0) = 0

====
